---- MODULE Spec2Model ----
(***************************************************************************)
(* State-machine model of backend/yfinance-service.py: the rate_limit      *)
(* decorator over the shared REQUEST_TIMESTAMPS list, the retry loop of    *)
(* fetch_quote_with_retry, and the endpoints health, get_quote,            *)
(* get_quotes_batch and search, each request served by its own thread      *)
(* (Flask's development server is threaded).                               *)
(*                                                                         *)
(* Time is in whole seconds; sleep durations are logged in milliseconds.   *)
(***************************************************************************)
EXTENDS Integers, Sequences, FiniteSets, TLC

(***************************************************************************)
(* Program constants                                                       *)
(***************************************************************************)
MAX_REQUESTS_PER_MINUTE == 30
WINDOW == 60
DELAY_BETWEEN_REQUESTS == 500
BATCH_PACING == 300
max_batch_size == 20
QUOTE_RETRIES == 2
BATCH_RETRIES == 1

(***************************************************************************)
(* Bounds of the model                                                     *)
(***************************************************************************)
MaxTicks == 3
MaxShort == 2
MaxOver == 2
MaxRetries == 4
MaxRequests == 3
MaxPoints == 3

\* two request threads, the fewest that can race in rate_limit.wrapper
Threads == {1, 2}
TickStep == WINDOW \div 2
MaxTime == MaxTicks * TickStep

Symbols == {"aapl", "BTC-USD"}
TailSymbol == "msft"
Outcomes == {"data", "empty", "error"}

\* closing prices of the upstream series
Prices == {0, 100, 110}

VARIABLES
    REQUEST_TIMESTAMPS,  \* the global list of admission timestamps
    clock,               \* what time.time() returns now
    pc,                  \* pc[t]: where thread t stands in its request
    ep,                  \* ep[t]: the endpoint thread t serves
    now,                 \* now[t]: the local `now` of rate_limit.wrapper
    pruned,              \* pruned[t]: the list the comprehension of line 36 built
    bodyOk,              \* bodyOk[t]: the batch request carries a JSON object
    symbols,             \* symbols[t]: local `symbols` (get_quote: <<symbol>>)
    i,                   \* i[t]: loop index of get_quotes_batch
    max_retries,         \* max_retries[t]: argument of fetch_quote_with_retry
    attempt,             \* attempt[t]: loop index of fetch_quote_with_retry
    result,              \* result[t]: what fetch_quote_with_retry returned
    quote,               \* quote[t]: the price fields of a returned success
    history,             \* Close column of ticker.history() when it has data
    results,             \* results[t]: keys of the batch `results` dict
    status,              \* status[t]: HTTP status of the response, 0 = none yet
    input,               \* history: the symbol list as received
    before,              \* history: REQUEST_TIMESTAMPS as the call found it, when
                         \* it began and then when its line 36 replaced it
    checks,              \* history: admission checks (line 39) of this request
    slots,               \* history: timestamps this request appended (line 44)
    fetchLog,            \* history: symbols given to yf.Ticker, in order
    outcomes,            \* history: upstream outcomes of the current retry call
    okSyms,              \* history: input symbols with a successful fetch
    sleeps,              \* history: time.sleep durations (ms) of this request
    admissions,          \* history: timestamps of all admitted checks, in order
    arrivals             \* history: number of requests received so far

limiter == <<REQUEST_TIMESTAMPS, admissions, arrivals, history>>
locals == <<ep, now, pruned, bodyOk, symbols, i, max_retries, attempt, result,
            quote, results, status, input, before, checks, slots, fetchLog,
            outcomes, okSyms, sleeps>>
vars == <<REQUEST_TIMESTAMPS, clock, pc, ep, now, pruned, bodyOk, symbols, i,
          max_retries, attempt, result, quote, results, status, input, before,
          checks, slots, fetchLog, outcomes, okSyms, sleeps, admissions,
          arrivals, history>>

(***************************************************************************)
(* Helpers                                                                 *)
(***************************************************************************)
\* str.upper() on the symbols of the model
Upper(s) ==
    CASE s = "aapl" -> "AAPL"
      [] s = "msft" -> "MSFT"
      [] OTHER -> s

RECURSIVE Filter(_, _)
\* [ts for ts in list if now - ts < 60]
Keep(ts, n) == n - ts < WINDOW

Filter(list, n) ==
    IF list = <<>> THEN <<>>
    ELSE IF Keep(Head(list), n) THEN <<Head(list)>> \o Filter(Tail(list), n)
         ELSE Filter(Tail(list), n)

\* mutant of AtCeiling: the comparison is > instead of >=
AtCeilingOffByOne(list) == Len(list) > MAX_REQUESTS_PER_MINUTE

\* len(REQUEST_TIMESTAMPS) >= MAX_REQUESTS_PER_MINUTE
AtCeiling(list) == Len(list) >= MAX_REQUESTS_PER_MINUTE

\* mutant of WaitTime: the delay does not grow with the attempt
WaitTimeFixed(a) == 2 * 1000

\* wait_time = (attempt + 1) * 2, in ms
WaitTime(a) == (a + 1) * 2 * 1000

\* mutant of Truncate: the list is not cut
TruncateNone(syms) == syms

\* symbols[:max_batch_size]
Truncate(syms) ==
    IF Len(syms) > max_batch_size THEN SubSeq(syms, 1, max_batch_size) ELSE syms

RateLimited == {"quote", "batch"}

(***************************************************************************)
(* fetch_quote_with_retry, lines 64-73: the price fields of a success.     *)
(* Prices are integers; a quotient is kept exact, as the pair              *)
(* <<numerator, denominator>> in lowest terms, a denominator of 0 standing *)
(* for a division by zero.                                                 *)
(***************************************************************************)
Abs(x) == IF x < 0 THEN -x ELSE x

RECURSIVE GCD(_, _)
GCD(a, b) == IF b = 0 THEN a ELSE GCD(b, a % b)

\* n / d
Frac(n, d) ==
    LET g == GCD(Abs(n), Abs(d))
    IN  IF g = 0 THEN <<0, 0>> ELSE <<n \div g, d \div g>>

Zero == Frac(0, 1)

\* mutant of ChangePercent: the previous close is not tested
ChangePercentUnguarded(change, previous_close) ==
    Frac(change * 100, previous_close)

\* line 70: (change / previous_close * 100) if previous_close else 0
ChangePercent(change, previous_close) ==
    IF previous_close # 0 THEN Frac(change * 100, previous_close) ELSE Zero

\* lines 64-73, for the non-empty Close column h
QuoteFields(h) ==
    LET current_price == h[Len(h)]
    IN  IF Len(h) > 1
        THEN LET previous_close == h[Len(h) - 1]
                 change == current_price - previous_close
             IN  [currentPrice |-> current_price,
                  change24h |-> change,
                  changePercentage |-> ChangePercent(change, previous_close)]
        ELSE [currentPrice |-> current_price,
              change24h |-> 0,
              changePercentage |-> Zero]

\* no success returned
NoQuote == [currentPrice |-> 0, change24h |-> 0, changePercentage |-> Zero]

\* the series of the runs that do not vary it
SampleHistory == <<100, 110>>

(***************************************************************************)
(* Initial states.  At module load REQUEST_TIMESTAMPS = [] (line 23).  The *)
(* ceiling of 30 is reached only after 30 requests, so the runs also start *)
(* from the states the service is in after n requests were admitted at     *)
(* time 0 and answered, for n next to the ceiling.                         *)
(***************************************************************************)
Fill(n) == [k \in 1..n |-> 0]

InitFills == {0} \cup ((MAX_REQUESTS_PER_MINUTE - 2)..MAX_REQUESTS_PER_MINUTE)

InitOf(fills, series) ==
    /\ REQUEST_TIMESTAMPS \in {Fill(n) : n \in fills}
    /\ history \in series
    /\ quote = [t \in Threads |-> NoQuote]
    /\ admissions = REQUEST_TIMESTAMPS
    /\ arrivals = 0
    /\ clock = 0
    /\ pc = [t \in Threads |-> "idle"]
    /\ ep = [t \in Threads |-> "none"]
    /\ now = [t \in Threads |-> 0]
    /\ pruned = [t \in Threads |-> <<>>]
    /\ bodyOk = [t \in Threads |-> TRUE]
    /\ symbols = [t \in Threads |-> <<>>]
    /\ i = [t \in Threads |-> 0]
    /\ max_retries = [t \in Threads |-> 0]
    /\ attempt = [t \in Threads |-> 0]
    /\ result = [t \in Threads |-> "none"]
    /\ results = [t \in Threads |-> {}]
    /\ status = [t \in Threads |-> 0]
    /\ input = [t \in Threads |-> <<>>]
    /\ before = [t \in Threads |-> <<>>]
    /\ checks = [t \in Threads |-> 0]
    /\ slots = [t \in Threads |-> 0]
    /\ fetchLog = [t \in Threads |-> <<>>]
    /\ outcomes = [t \in Threads |-> <<>>]
    /\ okSyms = [t \in Threads |-> {}]
    /\ sleeps = [t \in Threads |-> <<>>]

InitWith(fills) == InitOf(fills, {SampleHistory})

Init == InitWith(InitFills)

InitEmpty == InitWith({0})

\* time passes
Tick ==
    /\ clock + TickStep <= MaxTime
    /\ clock' = clock + TickStep
    /\ UNCHANGED <<pc, limiter, locals>>

(***************************************************************************)
(* Thread t takes up a call: endpoint e, JSON body present (ok), symbol    *)
(* list syms, retry budget m (0 until the endpoint sets it).  For a        *)
(* rate-limited endpoint the wrapper starts and reads the clock (line 33). *)
(***************************************************************************)
\* mutant of EntryPc: get_quote lacks the @rate_limit() decorator
EntryPcUndecorated(e) ==
    CASE e = "batch" -> "L36"
      [] e = "retry" -> "fetch"
      [] OTHER -> e

EntryPc(e) ==
    CASE e \in RateLimited -> "L36"
      [] e = "retry" -> "fetch"
      [] OTHER -> e

Receive(t, e, ok, syms, m) ==
    /\ pc[t] \in {"idle", "done"}
    /\ arrivals < MaxRequests
    /\ arrivals' = arrivals + 1
    /\ ep' = [ep EXCEPT ![t] = e]
    /\ bodyOk' = [bodyOk EXCEPT ![t] = ok]
    /\ symbols' = [symbols EXCEPT ![t] = syms]
    /\ input' = [input EXCEPT ![t] = syms]
    /\ before' = [before EXCEPT ![t] = REQUEST_TIMESTAMPS]
    /\ now' = [now EXCEPT ![t] = IF e \in RateLimited THEN clock ELSE 0]
    /\ pc' = [pc EXCEPT ![t] = EntryPc(e)]
    /\ pruned' = [pruned EXCEPT ![t] = <<>>]
    /\ i' = [i EXCEPT ![t] = 0]
    /\ max_retries' = [max_retries EXCEPT ![t] = m]
    /\ attempt' = [attempt EXCEPT ![t] = 0]
    /\ result' = [result EXCEPT ![t] = "none"]
    /\ quote' = [quote EXCEPT ![t] = NoQuote]
    /\ results' = [results EXCEPT ![t] = {}]
    /\ status' = [status EXCEPT ![t] = 0]
    /\ checks' = [checks EXCEPT ![t] = 0]
    /\ slots' = [slots EXCEPT ![t] = 0]
    /\ fetchLog' = [fetchLog EXCEPT ![t] = <<>>]
    /\ outcomes' = [outcomes EXCEPT ![t] = <<>>]
    /\ okSyms' = [okSyms EXCEPT ![t] = {}]
    /\ sleeps' = [sleeps EXCEPT ![t] = <<>>]
    /\ UNCHANGED <<REQUEST_TIMESTAMPS, clock, admissions, history>>

\* an HTTP request arrives
Arrive(t, e, ok, syms) == Receive(t, e, ok, syms, 0)

(***************************************************************************)
(* rate_limit.wrapper, lines 36-47, one step per access to the global      *)
(***************************************************************************)
\* mutant of WaitsFor: a sleeping request keeps a lock the wrapper takes
WaitsForSleepers(t) == {u \in Threads \ {t} : pc[u] \in {"backoff", "L161"}}

\* the threads that thread t has to wait for before a step of the wrapper:
\* none, lines 32-47 acquire no lock and time.sleep (lines 89, 95, 161)
\* suspends the calling thread only
WaitsFor(t) == {}

\* line 36, right-hand side: the comprehension reads the global list
PruneRead(t) ==
    /\ pc[t] = "L36"
    /\ WaitsFor(t) = {}
    /\ pruned' = [pruned EXCEPT ![t] = Filter(REQUEST_TIMESTAMPS, now[t])]
    /\ pc' = [pc EXCEPT ![t] = "L36w"]
    /\ UNCHANGED <<REQUEST_TIMESTAMPS, clock, ep, now, bodyOk, symbols, i,
                   max_retries, attempt, result, quote, results, status,
                   input, before, checks, slots, fetchLog, outcomes, okSyms,
                   sleeps, admissions, arrivals, history>>

\* line 36, the assignment: the global is rebound to the new list
PruneWrite(t) ==
    /\ pc[t] = "L36w"
    /\ WaitsFor(t) = {}
    /\ REQUEST_TIMESTAMPS' = pruned[t]
    /\ before' = [before EXCEPT ![t] = REQUEST_TIMESTAMPS]
    /\ pc' = [pc EXCEPT ![t] = "L39"]
    /\ UNCHANGED <<clock, ep, now, pruned, bodyOk, symbols, i, max_retries,
                   attempt, result, quote, results, status, input, checks,
                   slots, fetchLog, outcomes, okSyms, sleeps, admissions,
                   arrivals, history>>

\* mutant of AfterCheck: line 41 builds the 429 response without returning
AfterCheckNoReturn(list, e) == IF AtCeiling(list) THEN e ELSE "L44"

\* lines 39-44: where the wrapper of endpoint e goes after the length check
AfterCheck(list, e) == IF AtCeiling(list) THEN "done" ELSE "L44"

\* lines 39-41: the length check; at the ceiling the wrapper returns 429
Check(t) ==
    /\ pc[t] = "L39"
    /\ WaitsFor(t) = {}
    /\ checks' = [checks EXCEPT ![t] = @ + 1]
    /\ status' = [status EXCEPT ![t] =
                     IF AtCeiling(REQUEST_TIMESTAMPS) THEN 429 ELSE @]
    /\ pc' = [pc EXCEPT ![t] = AfterCheck(REQUEST_TIMESTAMPS, ep[t])]
    /\ UNCHANGED <<REQUEST_TIMESTAMPS, clock, ep, now, pruned, bodyOk,
                   symbols, i, max_retries, attempt, result, quote, results,
                   input, before, slots, fetchLog, outcomes, okSyms, sleeps,
                   admissions, arrivals, history>>

\* line 44: REQUEST_TIMESTAMPS.append(now)
Admit(t) ==
    /\ pc[t] = "L44"
    /\ WaitsFor(t) = {}
    /\ REQUEST_TIMESTAMPS' = Append(REQUEST_TIMESTAMPS, now[t])
    /\ admissions' = Append(admissions, now[t])
    /\ slots' = [slots EXCEPT ![t] = @ + 1]
    /\ pc' = [pc EXCEPT ![t] = "L47"]
    /\ UNCHANGED <<clock, ep, now, pruned, bodyOk, symbols, i, max_retries,
                   attempt, result, quote, results, status, input, before,
                   checks, fetchLog, outcomes, okSyms, sleeps, arrivals,
                   history>>

\* line 47: time.sleep(DELAY_BETWEEN_REQUESTS), then line 49 enters f
Delay(t) ==
    /\ pc[t] = "L47"
    /\ sleeps' = [sleeps EXCEPT ![t] = Append(@, DELAY_BETWEEN_REQUESTS)]
    /\ pc' = [pc EXCEPT ![t] = ep[t]]
    /\ UNCHANGED <<REQUEST_TIMESTAMPS, clock, ep, now, pruned, bodyOk,
                   symbols, i, max_retries, attempt, result, quote, results,
                   status, input, before, checks, slots, fetchLog, outcomes,
                   okSyms, admissions, arrivals, history>>

(***************************************************************************)
(* fetch_quote_with_retry(symbol, max_retries), lines 53-99                *)
(***************************************************************************)
\* the symbol the current call was given
CurrentSymbol(t) == IF ep[t] = "batch" THEN symbols[t][i[t] + 1] ELSE symbols[t][1]

\* where the call returns to
ReturnPc(t) ==
    CASE ep[t] = "quote" -> "L114"
      [] ep[t] = "batch" -> "L165"
      [] OTHER -> "done"

\* lines 86 / 92: attempts remain after attempt a
AttemptsRemain(a, m) == a < m - 1

\* lines 56-97: one pass of the loop body, the upstream answering o
Fetch(t, o) ==
    /\ pc[t] = "fetch"
    /\ attempt[t] < max_retries[t]
    /\ fetchLog' = [fetchLog EXCEPT ![t] = Append(@, Upper(CurrentSymbol(t)))]
    /\ outcomes' = [outcomes EXCEPT ![t] = Append(@, o)]
    /\ IF o = "data"
       THEN \* lines 62-83: return the success record
            /\ result' = [result EXCEPT ![t] = "success"]
            /\ quote' = [quote EXCEPT ![t] = QuoteFields(history)]
            /\ okSyms' = [okSyms EXCEPT ![t] = @ \cup {CurrentSymbol(t)}]
            /\ pc' = [pc EXCEPT ![t] = ReturnPc(t)]
            /\ UNCHANGED attempt
       ELSE IF AttemptsRemain(attempt[t], max_retries[t])
       THEN \* lines 86-89, 92-95: sleep before the next attempt
            /\ pc' = [pc EXCEPT ![t] = "backoff"]
            /\ UNCHANGED <<result, quote, okSyms, attempt>>
       ELSE \* the loop ends; line 99
            /\ result' = [result EXCEPT ![t] = "failure"]
            /\ UNCHANGED quote
            /\ attempt' = [attempt EXCEPT ![t] = @ + 1]
            /\ pc' = [pc EXCEPT ![t] = ReturnPc(t)]
            /\ UNCHANGED okSyms
    /\ UNCHANGED <<REQUEST_TIMESTAMPS, clock, ep, now, pruned, bodyOk,
                   symbols, i, max_retries, results, status, input, before,
                   checks, slots, sleeps, admissions, arrivals, history>>

\* lines 89 / 95: time.sleep(wait_time), then the next attempt
Backoff(t) ==
    /\ pc[t] = "backoff"
    /\ sleeps' = [sleeps EXCEPT ![t] = Append(@, WaitTime(attempt[t]))]
    /\ attempt' = [attempt EXCEPT ![t] = @ + 1]
    /\ pc' = [pc EXCEPT ![t] = "fetch"]
    /\ UNCHANGED <<REQUEST_TIMESTAMPS, clock, ep, now, pruned, bodyOk,
                   symbols, i, max_retries, result, quote, results, status,
                   input, before, checks, slots, fetchLog, outcomes, okSyms,
                   admissions, arrivals, history>>

(***************************************************************************)
(* get_quote, lines 108-135                                                *)
(***************************************************************************)
\* lines 110-112: call fetch_quote_with_retry(symbol)
QuoteCall(t) ==
    /\ pc[t] = "quote"
    /\ max_retries' = [max_retries EXCEPT ![t] = QUOTE_RETRIES]
    /\ attempt' = [attempt EXCEPT ![t] = 0]
    /\ pc' = [pc EXCEPT ![t] = "fetch"]
    /\ UNCHANGED <<REQUEST_TIMESTAMPS, clock, ep, now, pruned, bodyOk,
                   symbols, i, result, quote, results, status, input, before,
                   checks, slots, fetchLog, outcomes, okSyms, sleeps,
                   admissions, arrivals, history>>

\* mutant of QuoteStatus: a failed retry result is reported as a fault
QuoteStatusFault(r) == IF r = "success" THEN 200 ELSE 500

\* lines 114-131: the status of the response for a retry result
QuoteStatus(r) == IF r = "success" THEN 200 ELSE 404

QuoteRespond(t) ==
    /\ pc[t] = "L114"
    /\ status' = [status EXCEPT ![t] = QuoteStatus(result[t])]
    /\ pc' = [pc EXCEPT ![t] = "done"]
    /\ UNCHANGED <<REQUEST_TIMESTAMPS, clock, ep, now, pruned, bodyOk,
                   symbols, i, max_retries, attempt, result, quote, results,
                   input, before, checks, slots, fetchLog, outcomes, okSyms,
                   sleeps, admissions, arrivals, history>>

(***************************************************************************)
(* health, lines 102-104                                                   *)
(***************************************************************************)
Health(t) ==
    /\ pc[t] = "health"
    /\ status' = [status EXCEPT ![t] = 200]
    /\ pc' = [pc EXCEPT ![t] = "done"]
    /\ UNCHANGED <<REQUEST_TIMESTAMPS, clock, ep, now, pruned, bodyOk,
                   symbols, i, max_retries, attempt, result, quote, results,
                   input, before, checks, slots, fetchLog, outcomes, okSyms,
                   sleeps, admissions, arrivals, history>>

(***************************************************************************)
(* get_quotes_batch, lines 139-187                                         *)
(***************************************************************************)
\* mutant of NoSymbols: the empty list is not rejected
NoSymbolsNever(syms) == FALSE

\* line 145: `not symbols`; data.get('symbols', []) at line 143 gives [] for
\* a body with "symbols": [] and for a body without the key
NoSymbols(syms) == syms = <<>>

\* lines 141-155: read the body, reject an empty list, truncate
BatchEnter(t) ==
    /\ pc[t] = "batch"
    /\ IF ~bodyOk[t]
       THEN \* request.get_json() gives no object: caught at line 185
            /\ status' = [status EXCEPT ![t] = 500]
            /\ pc' = [pc EXCEPT ![t] = "done"]
            /\ UNCHANGED symbols
       ELSE IF NoSymbols(symbols[t])
       THEN \* lines 145-146
            /\ status' = [status EXCEPT ![t] = 400]
            /\ pc' = [pc EXCEPT ![t] = "done"]
            /\ UNCHANGED symbols
       ELSE \* lines 149-155
            /\ symbols' = [symbols EXCEPT ![t] = Truncate(@)]
            /\ pc' = [pc EXCEPT ![t] = "L157"]
            /\ UNCHANGED status
    /\ i' = [i EXCEPT ![t] = 0]
    /\ results' = [results EXCEPT ![t] = {}]
    /\ UNCHANGED <<REQUEST_TIMESTAMPS, clock, ep, now, pruned, bodyOk,
                   max_retries, attempt, result, quote, input, before, checks,
                   slots, fetchLog, outcomes, okSyms, sleeps, admissions,
                   arrivals, history>>

\* mutant of NeedsPacing: the first item is paced too
NeedsPacingEvery(k) == k >= 0

\* line 160: a pacing sleep precedes the item at index k
NeedsPacing(k) == k > 0

\* mutant of ItemPc: every item is fetched through the rate-limited wrapper
ItemPcThroughLimiter(k) == "L36"

\* lines 160-163: where the loop body starts for the item at index k
ItemPc(k) == IF NeedsPacing(k) THEN "L161" ELSE "fetch"

\* lines 157-163 and 182-183: next item of the loop, or the response
BatchIter(t) ==
    /\ pc[t] = "L157"
    /\ IF i[t] >= Len(symbols[t])
       THEN /\ status' = [status EXCEPT ![t] = 200]
            /\ pc' = [pc EXCEPT ![t] = "done"]
            /\ UNCHANGED <<max_retries, attempt, outcomes>>
       ELSE /\ pc' = [pc EXCEPT ![t] = ItemPc(i[t])]
            /\ max_retries' = [max_retries EXCEPT ![t] = BATCH_RETRIES]
            /\ attempt' = [attempt EXCEPT ![t] = 0]
            /\ outcomes' = [outcomes EXCEPT ![t] = <<>>]
            /\ UNCHANGED status
    /\ UNCHANGED <<REQUEST_TIMESTAMPS, clock, ep, now, pruned, bodyOk,
                   symbols, i, result, quote, results, input, before, checks,
                   slots, fetchLog, okSyms, sleeps, admissions, arrivals,
                   history>>

\* line 161: time.sleep(0.3)
Pace(t) ==
    /\ pc[t] = "L161"
    /\ sleeps' = [sleeps EXCEPT ![t] = Append(@, BATCH_PACING)]
    /\ pc' = [pc EXCEPT ![t] = "fetch"]
    /\ UNCHANGED <<REQUEST_TIMESTAMPS, clock, ep, now, pruned, bodyOk,
                   symbols, i, max_retries, attempt, result, quote, results,
                   status, input, before, checks, slots, fetchLog, outcomes,
                   okSyms, admissions, arrivals, history>>

\* mutant of Collect: a failed item gets an entry too
CollectAll(keys, sym, r) == keys \cup {Upper(sym)}

\* lines 165-178: the keys of `results` after the item's fetch returned r
Collect(keys, sym, r) == IF r = "success" THEN keys \cup {Upper(sym)} ELSE keys

BatchCollect(t) ==
    /\ pc[t] = "L165"
    /\ results' = [results EXCEPT ![t] = Collect(@, symbols[t][i[t] + 1], result[t])]
    /\ i' = [i EXCEPT ![t] = @ + 1]
    /\ result' = [result EXCEPT ![t] = "none"]
    /\ quote' = [quote EXCEPT ![t] = NoQuote]
    /\ pc' = [pc EXCEPT ![t] = "L157"]
    /\ UNCHANGED <<REQUEST_TIMESTAMPS, clock, ep, now, pruned, bodyOk,
                   symbols, max_retries, attempt, status, input, before,
                   checks, slots, fetchLog, outcomes, okSyms, sleeps,
                   admissions, arrivals, history>>

(***************************************************************************)
(* search, lines 190-216: one ticker.info lookup, never rate limited       *)
(***************************************************************************)
\* what ticker.info gives: a price field with a number, no price field, a
\* price field holding null (float(None) raises at line 209), or the lookup
\* raises
SearchOutcomes == {"price", "noprice", "nullprice", "error"}

\* mutant of SearchStatus: a fault of the lookup is reported as 500
SearchStatusFault(o) == IF o \in {"nullprice", "error"} THEN 500 ELSE 200

\* lines 199, 213, 216: every return of search carries 200
SearchStatus(o) == 200

\* lines 198-216: the symbols of the returned array
SearchResults(o, sym) == IF o = "price" THEN {Upper(sym)} ELSE {}

Search(t, o) ==
    /\ pc[t] = "search"
    /\ fetchLog' = [fetchLog EXCEPT ![t] = Append(@, Upper(symbols[t][1]))]
    /\ outcomes' = [outcomes EXCEPT ![t] = Append(@, o)]
    /\ results' = [results EXCEPT ![t] = SearchResults(o, symbols[t][1])]
    /\ status' = [status EXCEPT ![t] = SearchStatus(o)]
    /\ pc' = [pc EXCEPT ![t] = "done"]
    /\ UNCHANGED <<REQUEST_TIMESTAMPS, clock, ep, now, pruned, bodyOk,
                   symbols, i, max_retries, attempt, result, quote, input,
                   before, checks, slots, okSyms, sleeps, admissions,
                   arrivals, history>>

(***************************************************************************)
(* Requests                                                                *)
(***************************************************************************)
RECURSIVE SeqsUpTo(_, _)
SeqsUpTo(S, n) ==
    IF n = 0 THEN {<<>>}
    ELSE LET shorter == SeqsUpTo(S, n - 1)
         IN  shorter \cup {Append(q, x) : q \in shorter, x \in S}

ShortLists == SeqsUpTo(Symbols, MaxShort)

\* max_batch_size + over entries: the first max_batch_size alternate over
\* Symbols, every later entry is TailSymbol
LongList(over) ==
    [k \in 1..(max_batch_size + over) |->
        IF k > max_batch_size THEN TailSymbol
        ELSE IF k % 2 = 1 THEN "aapl" ELSE "BTC-USD"]

LongLists == {LongList(over) : over \in 0..MaxOver}

QuoteRequest(t) == Arrive(t, "quote", TRUE, <<"aapl">>)

BatchRequest(t) ==
    \/ \E syms \in ShortLists \cup LongLists : Arrive(t, "batch", TRUE, syms)
    \/ Arrive(t, "batch", FALSE, <<>>)

SearchRequest(t) == Arrive(t, "search", TRUE, <<"aapl">>)

HealthRequest(t) == Arrive(t, "health", TRUE, <<>>)

\* a batch request that runs beside other requests
PairRequest(t) == Arrive(t, "batch", TRUE, <<"aapl", "BTC-USD">>)

\* a direct call fetch_quote_with_retry(s, m)
RetryCall(t) ==
    \E s \in Symbols, m \in 1..MaxRetries : Receive(t, "retry", TRUE, <<s>>, m)

(***************************************************************************)
(* Specifications                                                          *)
(***************************************************************************)
Limiter(t) == PruneRead(t) \/ PruneWrite(t) \/ Check(t) \/ Admit(t) \/ Delay(t)

Retry(t) == (\E o \in Outcomes : Fetch(t, o)) \/ Backoff(t)

Quote(t) == QuoteCall(t) \/ QuoteRespond(t)

Batch(t) == BatchEnter(t) \/ BatchIter(t) \/ Pace(t) \/ BatchCollect(t)

\* the rate-limited endpoints under concurrent requests, a thread per request
Next ==
    \/ Tick
    \/ \E t \in Threads :
          \/ pc[t] = "idle" /\ (QuoteRequest(t) \/ PairRequest(t))
          \/ Limiter(t) \/ Retry(t) \/ Quote(t) \/ Batch(t)

Spec == Init /\ [][Next]_vars

\* the thread of a service that runs single-threaded
Worker == CHOOSE t \in Threads : TRUE

\* every endpoint, the requests served one after another
NextSeq ==
    \/ Tick
    \/ \E t \in {Worker} :
          \/ QuoteRequest(t) \/ BatchRequest(t)
          \/ SearchRequest(t) \/ HealthRequest(t)
          \/ Limiter(t) \/ Retry(t) \/ Quote(t) \/ Batch(t)
          \/ Health(t)
          \/ \E o \in SearchOutcomes : Search(t, o)

SpecSeq == Init /\ [][NextSeq]_vars

\* fetch_quote_with_retry called on its own
NextRetry == \E t \in {Worker} : RetryCall(t) \/ Retry(t)

SpecRetry == InitEmpty /\ [][NextRetry]_vars

\* the non-empty Close columns of up to MaxPoints prices
Series == SeqsUpTo(Prices, MaxPoints) \ {<<>>}

\* fetch_quote_with_retry called on its own, over every such series
InitFields == InitOf({0}, Series)

SpecFields == InitFields /\ [][NextRetry]_vars

\* a call that was started keeps running: the upstream answers, sleeps end
SpecRetryFair == SpecRetry /\ WF_vars(Retry(Worker))

(***************************************************************************)
(* Properties                                                              *)
(***************************************************************************)
\* the entries of log inside the 60-second window that ends at time n
WindowCount(log, n) ==
    Cardinality({k \in 1..Len(log) : log[k] <= n /\ n - log[k] < WINDOW})

\* thread t is between lines 36 and 44 of the wrapper
InAdmission(t) == pc[t] \in {"L36", "L36w", "L39", "L44"}

\* C1: with the requests served one after another, the length check of a
\* request admits it exactly when fewer than 30 earlier admitted checks lie
\* in the 60-second window ending at its `now`, and otherwise answers 429.
C1_SequentialCeiling ==
    [][\A t \in Threads :
          (pc[t] = "L39" /\ pc'[t] # "L39") =>
             IF WindowCount(admissions, now[t]) < MAX_REQUESTS_PER_MINUTE
             THEN pc'[t] = "L44" /\ status'[t] = 0
             ELSE pc'[t] = "done" /\ status'[t] = 429]_vars

\* C1 witness: the 31st check of a window is rejected after a run that
\* admitted the checks before it
C1_Witness ==
    \E t \in Threads :
        /\ status[t] = 429
        /\ arrivals > 1
        /\ Len(admissions) = MAX_REQUESTS_PER_MINUTE
        /\ WindowCount(admissions, now[t]) = MAX_REQUESTS_PER_MINUTE

\* C2: under every interleaving of concurrent requests, no 60-second window
\* holds more than 30 admitted requests (with 29 recorded, two racing
\* requests are not both admitted).
C2_AtMostCeilingAdmitted ==
    \A k \in 1..Len(admissions) :
        WindowCount(admissions, admissions[k]) <= MAX_REQUESTS_PER_MINUTE

\* C3: whenever no admission step is in progress, REQUEST_TIMESTAMPS holds at
\* most 30 timestamps inside the trailing 60-second window.
C3_SizeInvariant ==
    (\A t \in Threads : ~InAdmission(t)) =>
        WindowCount(REQUEST_TIMESTAMPS, clock) <= MAX_REQUESTS_PER_MINUTE

\* C4 as stated: every upstream call of any endpoint, search included, comes
\* after a successful admission of the same request.
C4_AllFetchesAdmitted ==
    \A t \in Threads : fetchLog[t] # <<>> => slots[t] > 0

\* C4 amended: every upstream call of a single-quote or batch request comes
\* after a successful admission of that request; search calls the upstream
\* without any admission check.
C4_RateLimitedFetchesAdmitted ==
    \A t \in Threads :
        /\ (ep[t] \in RateLimited /\ fetchLog[t] # <<>>) =>
              (slots[t] > 0 /\ status[t] # 429)
        /\ ep[t] = "search" => (checks[t] = 0 /\ slots[t] = 0)

\* C4 witness: a batch request, not the first request served, fetched after
\* its admission
C4_Witness ==
    \E t \in Threads :
        /\ ep[t] = "batch" /\ fetchLog[t] # <<>> /\ slots[t] = 1
        /\ arrivals > 1

\* C5: a rejected GET /quote answers 429 with no upstream fetch and no sleep;
\* the body of get_quote and its fetches run only after the admission.
C5_QuoteAdmissionFirst ==
    \A t \in Threads :
        ep[t] = "quote" =>
            /\ status[t] = 429 =>
                  (pc[t] = "done" /\ fetchLog[t] = <<>> /\ sleeps[t] = <<>>
                     /\ slots[t] = 0)
            /\ (pc[t] \in {"quote", "fetch", "backoff", "L114"}
                  \/ fetchLog[t] # <<>>) => (checks[t] = 1 /\ slots[t] = 1)

\* C5 witness: a rejected single-quote request
C5_Witness ==
    \E t \in Threads :
        ep[t] = "quote" /\ pc[t] = "done" /\ status[t] = 429 /\ checks[t] = 1

\* the delays 2 s, 4 s, ..., 2n s, in ms
Delays(n) == [k \in 1..n |-> 2 * k * 1000]

\* the trace of a call fetch_quote_with_retry(symbol, m) on thread t so far
C6_TraceOk(t) ==
    LET n == Len(outcomes[t])
        m == max_retries[t]
    IN  /\ Len(fetchLog[t]) = n
        /\ n <= m
        /\ \A k \in 1..(n - 1) : outcomes[t][k] # "data"
        /\ pc[t] = "fetch" => sleeps[t] = Delays(n)
        /\ pc[t] = "backoff" => sleeps[t] = Delays(n - 1)
        /\ pc[t] = "done" =>
              IF n > 0 /\ outcomes[t][n] = "data"
              THEN result[t] = "success" /\ sleeps[t] = Delays(n - 1)
              ELSE result[t] = "failure" /\ n = m /\ sleeps[t] = Delays(m - 1)

\* C6: a call fetch_quote_with_retry(symbol, m) makes one fetch per attempt,
\* stops at the first attempt that returns data (Success after k fetches and
\* delays 2 s .. 2(k-1) s), fails after m attempts without data (m fetches,
\* delays 2 s .. 2(m-1) s, none after the last), and always returns.
C6_RetryTrace ==
    /\ [](\A t \in Threads : ep[t] = "retry" => C6_TraceOk(t))
    /\ \A t \in Threads : (pc[t] \in {"fetch", "backoff"}) ~> (pc[t] = "done")

\* C6 witness: a call with a budget of three or more that failed twice and
\* then succeeded
C6_Witness ==
    \E t \in Threads :
        /\ ep[t] = "retry" /\ pc[t] = "done" /\ max_retries[t] >= 3
        /\ outcomes[t] = <<"error", "empty", "data">>
        /\ sleeps[t] = <<2000, 4000>>

\* the elements of a sequence
Range(q) == {q[k] : k \in 1..Len(q)}

\* C7: an admitted GET /quote answers 200 when one of its (at most 2)
\* attempts returned data and 404 when every attempt came back empty or
\* raised; an upstream error, on the last attempt too, never gives a 500.
C7_QuoteErrorsAbsorbed ==
    \A t \in Threads :
        (ep[t] = "quote" /\ slots[t] > 0) =>
            /\ Len(outcomes[t]) <= QUOTE_RETRIES
            /\ status[t] \in {0, 200, 404}
            /\ pc[t] = "done" =>
                  status[t] = IF "data" \in Range(outcomes[t]) THEN 200 ELSE 404
            /\ pc[t] # "done" => status[t] = 0

\* C7 witness: both attempts raised and the answer is 404
C7_Witness ==
    \E t \in Threads :
        /\ ep[t] = "quote" /\ pc[t] = "done" /\ status[t] = 404
        /\ outcomes[t] = <<"error", "error">>

\* the first max_batch_size entries of a received list
FirstEntries(q) == {q[k] : k \in 1..Len(q) \cap 1..max_batch_size}

\* C8: an admitted batch request with a non-empty list answers 200 and the
\* keys of its mapping are exactly the uppercased symbols, among the first 20
\* entries, whose fetch succeeded; a failing symbol is left out, adds no
\* entry, and does not stop the later symbols from being fetched.
C8_BatchIsolation ==
    \A t \in Threads :
        (ep[t] = "batch" /\ slots[t] > 0 /\ bodyOk[t] /\ input[t] # <<>>) =>
            /\ status[t] \in {0, 200}
            /\ okSyms[t] \subseteq FirstEntries(input[t])
            /\ pc[t] \in {"L157", "done"} =>
                  results[t] = {Upper(x) : x \in okSyms[t]}
            /\ pc[t] = "done" =>
                  /\ status[t] = 200
                  /\ Len(fetchLog[t]) = Cardinality(1..Len(input[t]) \cap 1..max_batch_size)

\* C8 witness: of two symbols the first failed and the second is returned
C8_Witness ==
    \E t \in Threads :
        /\ ep[t] = "batch" /\ pc[t] = "done" /\ status[t] = 200
        /\ input[t] = <<"aapl", "BTC-USD">>
        /\ results[t] = {"BTC-USD"}

\* C9: an admitted batch request with more than 20 symbols fetches the first
\* 20 entries in input order and no later entry, returns keys of those
\* entries only, and answers 200.
C9_BatchTruncation ==
    \A t \in Threads :
        (ep[t] = "batch" /\ Len(input[t]) > max_batch_size) =>
            /\ Len(fetchLog[t]) <= max_batch_size
            /\ \A k \in 1..Len(fetchLog[t]) : fetchLog[t][k] = Upper(input[t][k])
            /\ results[t] \subseteq {Upper(x) : x \in FirstEntries(input[t])}
            /\ Cardinality(results[t]) <= max_batch_size
            /\ status[t] \in {0, 200, 429}
            /\ (pc[t] = "done" /\ slots[t] > 0) =>
                  (status[t] = 200 /\ Len(fetchLog[t]) = max_batch_size)

\* C9 witness: a request with 22 symbols was answered after 20 fetches
C9_Witness ==
    \E t \in Threads :
        /\ ep[t] = "batch" /\ pc[t] = "done" /\ status[t] = 200
        /\ Len(input[t]) = max_batch_size + 2
        /\ Len(fetchLog[t]) = max_batch_size

\* C10: a batch request goes through the rate limiter once: past the wrapper
\* it has made one check and recorded one timestamp however many symbols it
\* has fetched, and a rejection comes only before its first fetch, also when
\* the limiter fills up while the batch runs.
C10_BatchOneAdmission ==
    \A t \in Threads :
        ep[t] = "batch" =>
            /\ checks[t] <= 1 /\ slots[t] <= checks[t]
            /\ (pc[t] \in {"batch", "L157", "L161", "fetch", "L165"}
                  \/ fetchLog[t] # <<>>) =>
                  (checks[t] = 1 /\ slots[t] = 1 /\ status[t] # 429)
            /\ status[t] = 429 => (fetchLog[t] = <<>> /\ slots[t] = 0)

\* C10 witness: a batch is about to fetch its second symbol while the list is
\* at the ceiling and another request has been rejected
C10_Witness ==
    \E t, u \in Threads :
        /\ ep[t] = "batch" /\ pc[t] = "fetch" /\ i[t] = 1 /\ slots[t] = 1
        /\ AtCeiling(REQUEST_TIMESTAMPS)
        /\ status[u] = 429

\* C11: an admitted batch request whose body carries an empty symbols list,
\* or no symbols entry, answers 400, never 200, builds no mapping and makes
\* no upstream fetch.
C11_EmptyBatchRejected ==
    \A t \in Threads :
        (ep[t] = "batch" /\ bodyOk[t] /\ input[t] = <<>>) =>
            /\ fetchLog[t] = <<>>
            /\ results[t] = {}
            /\ status[t] \in {0, 400, 429}
            /\ (pc[t] = "done" /\ slots[t] > 0) => status[t] = 400
            /\ pc[t] \notin {"L157", "L161", "fetch", "L165"}

\* C11 witness: an admitted batch request with no symbols was answered 400
C11_Witness ==
    \E t \in Threads :
        /\ ep[t] = "batch" /\ bodyOk[t] /\ input[t] = <<>>
        /\ pc[t] = "done" /\ slots[t] = 1 /\ status[t] = 400

\* the smallest entry of a non-empty list of timestamps
Oldest(list) == CHOOSE x \in Range(list) : \A y \in Range(list) : x <= y

\* C12: a rate-limited request whose check is made more than 60 seconds
\* after the oldest timestamp it found recorded is never rejected: its prune
\* removes that timestamp, and past the length check the request has been
\* admitted.
C12_ExpiryRestoresCapacity ==
    \A t \in Threads :
        (/\ ep[t] \in RateLimited
         /\ before[t] # <<>>
         /\ now[t] - Oldest(before[t]) > WINDOW) =>
            /\ status[t] # 429
            /\ pc[t] # "L36" => Oldest(before[t]) \notin Range(pruned[t])
            /\ ~InAdmission(t) => slots[t] = 1

\* C13: a request answered 429 has appended no timestamp, has slept and
\* fetched nothing, its endpoint body did not run, and the list its line 36
\* stored holds exactly the timestamps inside the 60-second window of the
\* list that store replaced.
C13_RejectionRecordsNothing ==
    \A t \in Threads :
        status[t] = 429 =>
            /\ pc[t] = "done" /\ checks[t] = 1 /\ slots[t] = 0
            /\ fetchLog[t] = <<>> /\ sleeps[t] = <<>> /\ results[t] = {}
            /\ pruned[t] = Filter(before[t], now[t])

\* C14: while a request sleeps in a retry backoff or in the pacing between
\* two batch items, every other request that is in its admission step can
\* take its next step, so its check runs to an admission or a rejection
\* without the sleeper waking up.
C14_SleepsDoNotBlock ==
    \A t, u \in Threads :
        (t # u /\ pc[t] \in {"backoff", "L161"} /\ InAdmission(u)) =>
            ENABLED Limiter(u)

\* C14 witness: a request that arrived while another one was already past
\* its admission has been admitted, and that other one is asleep
C14_Witness ==
    \E t, u \in Threads :
        /\ t # u /\ pc[t] \in {"backoff", "L161"}
        /\ now[u] > now[t] /\ pc[u] = "L47" /\ slots[u] = 1

\* C15: a search request is always answered 200 with an array of at most
\* one result: one result for the queried symbol when the upstream info
\* carries a price, the empty array when it carries none, when the price is
\* unusable and when the lookup raises; it is never answered 4xx or 5xx.
C15_SearchAlways200 ==
    \A t \in Threads :
        ep[t] = "search" =>
            /\ status[t] \in {0, 200}
            /\ Cardinality(results[t]) <= 1
            /\ pc[t] = "done" =>
                  /\ status[t] = 200
                  /\ Len(outcomes[t]) = 1
                  /\ results[t] = IF outcomes[t][1] = "price"
                                  THEN {Upper(input[t][1])} ELSE {}

\* C15 witness: a lookup that raised was answered 200 with the empty array
C15_Witness ==
    \E t \in Threads :
        /\ ep[t] = "search" /\ pc[t] = "done" /\ outcomes[t] = <<"error">>
        /\ status[t] = 200 /\ results[t] = {}

\* the price fields q agree with the reference over the series h
FieldsOk(h, q) ==
    LET n == Len(h)
        pct == q.changePercentage
    IN  /\ q.currentPrice = h[n]
        /\ pct[2] > 0
        /\ n >= 2 =>
              /\ q.change24h = h[n] - h[n - 1]
              /\ IF h[n - 1] = 0
                 THEN pct[1] = 0
                 ELSE pct[1] * h[n - 1] = q.change24h * 100 * pct[2]
        /\ n = 1 => (q.change24h = 0 /\ pct[1] = 0)

\* C16 as stated: a success built from a non-empty integer price series
\* carries the latest close, the change from the prior close and the percent
\* change = change / prior close * 100 (0 when the prior close is 0 or
\* there is one point), with no division by zero; and the series
\* <<100, 110>> gives 110, 10 and a percent change of about 9.09.
C16_QuoteFieldsAsStated ==
    \A t \in Threads :
        result[t] = "success" =>
            /\ FieldsOk(history, quote[t])
            /\ history = <<100, 110>> =>
                  LET pct == quote[t].changePercentage
                  IN  /\ quote[t].currentPrice = 110
                      /\ quote[t].change24h = 10
                      /\ 908 * pct[2] <= 100 * pct[1]
                      /\ 100 * pct[1] <= 910 * pct[2]

\* C16 amended: a success built from a non-empty integer price series
\* carries the latest close as currentPrice; with two or more points the
\* change is the latest close minus the one before it and the percent change
\* is that change / the prior close * 100, or 0 when the prior close is 0;
\* with one point both are 0; no series makes the computation divide by
\* zero; and the series <<100, 110>> gives 110, 10 and exactly 10 percent.
C16_QuoteFields ==
    \A t \in Threads :
        result[t] = "success" =>
            /\ FieldsOk(history, quote[t])
            /\ history = <<100, 110>> =>
                  quote[t] = [currentPrice |-> 110, change24h |-> 10,
                              changePercentage |-> <<10, 1>>]

\* C16 witness: a series whose prior close is 0 gave the change and a percent
\* change of 0, returned on a second attempt
C16_Witness ==
    \E t \in Threads :
        /\ history = <<110, 0, 100>> /\ result[t] = "success"
        /\ outcomes[t] = <<"empty", "data">>
        /\ quote[t] = [currentPrice |-> 100, change24h |-> 100,
                       changePercentage |-> <<0, 1>>]

\* the larger of two numbers
Max(a, b) == IF a > b THEN a ELSE b

\* the schedule of thread t: a batch call fetches the entries of its list in
\* input order, sleeps 500 ms in the wrapper and then 300 ms before each
\* fetch but the first, and never sleeps a backoff; a single-quote request
\* that failed made 2 attempts with one 2 s backoff between them
ScheduleOk(t) ==
    LET f == Len(fetchLog[t])
    IN  /\ (ep[t] = "batch" /\ slots[t] > 0) =>
              /\ f <= Len(input[t])
              /\ \A k \in 1..f : fetchLog[t][k] = Upper(input[t][k])
              /\ pc[t] = "L47" => sleeps[t] = <<>>
              /\ pc[t] # "L47" =>
                    /\ sleeps[t] # <<>>
                    /\ sleeps[t][1] = DELAY_BETWEEN_REQUESTS
                    /\ \A k \in 2..Len(sleeps[t]) : sleeps[t][k] = BATCH_PACING
                    /\ Len(sleeps[t]) - 1 =
                          IF pc[t] = "fetch" THEN f ELSE Max(f - 1, 0)
        /\ (ep[t] = "quote" /\ pc[t] = "done" /\ status[t] = 404) =>
              /\ fetchLog[t] = <<Upper(input[t][1]), Upper(input[t][1])>>
              /\ sleeps[t] = <<DELAY_BETWEEN_REQUESTS, 2000>>

\* thread t has answered a batch request none of whose fetches succeeded
AllFailed(t) ==
    /\ ep[t] = "batch" /\ pc[t] = "done" /\ status[t] = 200
    /\ okSyms[t] = {}

\* C17 as stated: a batch call fetches its symbols one after another in
\* input order with a 300 ms wait before every fetch but the first and no
\* backoff, so that a batch of n symbols that all fail makes exactly n
\* fetch attempts; a failing single-quote request makes 2 attempts with one
\* 2 s backoff.
C17_BatchScheduleAsStated ==
    \A t \in Threads :
        /\ ScheduleOk(t)
        /\ AllFailed(t) => Len(fetchLog[t]) = Len(input[t])

\* C17 amended: as above, but a batch of n symbols that all fail makes
\* exactly min(n, 20) fetch attempts, with min(n, 20) - 1 pacing waits: only
\* the first 20 entries of the list are fetched.
C17_BatchSchedule ==
    \A t \in Threads :
        /\ ScheduleOk(t)
        /\ AllFailed(t) =>
              /\ Len(fetchLog[t]) = Len(Truncate(input[t]))
              /\ Len(sleeps[t]) = Len(fetchLog[t])

\* C17 witness: a batch of two symbols that both failed made two fetches
\* with one pacing wait between them
C17_Witness ==
    \E t \in Threads :
        /\ AllFailed(t) /\ input[t] = <<"aapl", "BTC-USD">>
        /\ fetchLog[t] = <<"AAPL", "BTC-USD">>
        /\ sleeps[t] = <<DELAY_BETWEEN_REQUESTS, BATCH_PACING>>

\* the entries of list that are at most 60 seconds old at time n
AtMostWindowOld(list, n) == SelectSeq(list, LAMBDA ts : n - ts <= WINDOW)

\* C18: the prune of a check made at `now` removes exactly the timestamps
\* older than 60 seconds and keeps every timestamp of age at most 60 s, and
\* the check rejects exactly when 30 or more timestamps were kept.
C18_PruneBoundary ==
    \A t \in Threads :
        (ep[t] \in RateLimited /\ pc[t] \notin {"L36", "L36w"}) =>
            LET kept == AtMostWindowOld(before[t], now[t])
            IN  /\ pruned[t] = kept
                /\ checks[t] = 1 =>
                      ((status[t] = 429) <=> (Len(kept) >= MAX_REQUESTS_PER_MINUTE))

\* how many entries of list equal v
Count(list, v) == Cardinality({k \in 1..Len(list) : list[k] = v})

\* C19: under every interleaving, the timestamp of every admitted request
\* stays in REQUEST_TIMESTAMPS until it is 60 seconds old: as long as it is
\* younger, no prune of another request has dropped it.
C19_NoAdmissionLost ==
    \A k \in 1..Len(admissions) :
        clock - admissions[k] < WINDOW =>
            Count(REQUEST_TIMESTAMPS, admissions[k]) >= Count(admissions, admissions[k])

\* C20: a request to a rate-limited endpoint that was admitted has recorded
\* exactly one timestamp, whatever its answer (200, 404, 400, 500), and the
\* timestamp was recorded before its endpoint body ran; a request answered
\* 429 has recorded none and its prune left the timestamps of the window as
\* they were; a health or search request makes no check, records nothing and
\* leaves REQUEST_TIMESTAMPS as it found it.
C20_SlotAccounting ==
    \A t \in Threads :
        /\ (ep[t] \in RateLimited /\ pc[t] # "idle" /\ ~InAdmission(t)) =>
              /\ status[t] \in {0, 200, 400, 404, 429, 500}
              /\ slots[t] = IF status[t] = 429 THEN 0 ELSE 1
              /\ status[t] = 429 => pruned[t] = Filter(before[t], now[t])
        /\ (ep[t] \in RateLimited /\ InAdmission(t)) =>
              (slots[t] = 0 /\ status[t] = 0 /\ fetchLog[t] = <<>>)
        /\ ep[t] \in {"health", "search"} =>
              /\ checks[t] = 0 /\ slots[t] = 0
              /\ REQUEST_TIMESTAMPS = before[t]

====
